---- MODULE Spec2Model ----
(***************************************************************************)
(* GearUP (src/main.py): a vehicle maintenance dashboard.  The model has   *)
(* the session state (vehicle list, parts cache), the two rule evaluators  *)
(* (calculate_service_due, get_recommended_parts), the wiki lookups, the   *)
(* optional AI text generation and the Service Locator page.               *)
(*                                                                         *)
(* Conventions.  Python strings are TLA+ strings; they are taken apart     *)
(* with SubSeq and put together with \o.  Dates are day numbers relative   *)
(* to the day the session starts (day 0), so (a - b).days is a - b.  The   *)
(* usage multipliers 1.2, 0.9 ... are kept in tenths, and int(x / 1.2) is  *)
(* (x * 10) \div 12; days / 30.44 >= m is days * 100 >= m * 3044.          *)
(***************************************************************************)
EXTENDS Integers, Sequences, FiniteSets, TLC

VARIABLES
    vehicles,           \* st.session_state.vehicles
    parts_cache,        \* st.session_state.parts_cache
    today,              \* datetime.date.today()
    submissions,        \* history: number of Add Vehicle submissions
    vehicle_data,       \* argument of the rule evaluators (SpecRules)
    services_due,       \* last result of calculate_service_due
    recommended_parts,  \* last result of get_recommended_parts
    wiki_call,          \* the last wiki lookup called and its argument
    wiki_result,        \* what that lookup returned
    net_log,            \* the searches and summary calls it made, in order
    ai_resource,        \* st.cache_resource of load_ai_model
    details_memo,       \* st.cache_data of generate_ai_details
    format_memo,        \* st.cache_data of format_text_with_ai
    current_part_info,  \* st.session_state.current_part_info
    formatted_part_info, \* st.session_state.formatted_part_info
    ai_view,            \* what the last run of an AI-assisted page displayed
    locator_view        \* what the last run of the Service Locator page displayed

rules == <<vehicle_data, services_due, recommended_parts>>
wiki == <<wiki_call, wiki_result, net_log>>
ai == <<ai_resource, details_memo, format_memo, current_part_info,
        formatted_part_info, ai_view>>

vars == <<vehicles, parts_cache, today, submissions, rules, wiki, ai, locator_view>>

None == "None"
NotCalled == "NotCalled"

\* a key that is not in st.session_state
Unset == "Unset"

\* load_ai_model has not run in this process
Unloaded == "Unloaded"

EmptyDict == <<>>

\* no vehicle has been passed to an evaluator
NoVehicle == [type |-> None]

\* the Service Locator page has drawn no map
NoMap == [rendered |-> FALSE, location |-> [place |-> None], markers |-> <<>>]

\* the Service Locator page has not run
NoLocatorView ==
    [page |-> NotCalled, city |-> "", written |-> "", errors |-> <<>>,
     map |-> NoMap, printed |-> <<>>, requests |-> <<>>]

\* no AI-assisted page has run
NoView == [page |-> NotCalled, error |-> "", wiki_text |-> "", shown |-> "", calls |-> <<>>]

(* Strings *)

\* the characters of the model's strings, in ascending code point order
CodePointOrder ==
    "\n &.:ABCDEFGHIJKLMNOPQRSTUVWXYZ_abcdefghijklmnopqrstuvwxyz"

UpperCase == "ABCDEFGHIJKLMNOPQRSTUVWXYZ"
LowerCase == "abcdefghijklmnopqrstuvwxyz"

CharAt(s, i) == SubSeq(s, i, i)

\* rank of each character in code point order (order-isomorphic to ord())
OrdTable ==
    [c \in {CharAt(CodePointOrder, i) : i \in 1..Len(CodePointOrder)} |->
        CHOOSE i \in 1..Len(CodePointOrder) : CharAt(CodePointOrder, i) = c]

ord(c) == OrdTable[c]

LowerTable ==
    [c \in {CharAt(UpperCase, i) : i \in 1..Len(UpperCase)} |->
        CharAt(LowerCase, CHOOSE i \in 1..Len(UpperCase) : CharAt(UpperCase, i) = c)]

\* str.lower() of one character
LowerChar(c) == IF c \in DOMAIN LowerTable THEN LowerTable[c] ELSE c

\* str.lower()
lower(s) ==
    LET low[i \in 0..Len(s)] ==
            IF i = 0 THEN "" ELSE low[i - 1] \o LowerChar(CharAt(s, i))
    IN  low[Len(s)]

\* Python's  sub in s
Contains(sub, s) ==
    \E i \in 1..(Len(s) - Len(sub) + 1) : SubSeq(s, i, i + Len(sub) - 1) = sub

\* Python's  a < b  on str: lexicographic by code point
StrLess(a, b) ==
    \E k \in 1..Len(b) :
        /\ k <= Len(a) + 1
        /\ SubSeq(a, 1, k - 1) = SubSeq(b, 1, k - 1)
        /\ \/ k = Len(a) + 1
           \/ ord(CharAt(a, k)) < ord(CharAt(b, k))

\* sorted(list(set(xs))) for a set of strings
RECURSIVE sorted(_)
sorted(S) ==
    IF S = {} THEN <<>>
    ELSE LET m == CHOOSE x \in S : \A y \in S \ {x} : StrLess(x, y)
         IN  <<m>> \o sorted(S \ {m})

Range(f) == {f[i] : i \in DOMAIN f}

\* dict.get(key, default)
Get(d, key, default) == IF key \in DOMAIN d THEN d[key] ELSE default

(* Data tables *)

SERVICE_SCHEDULES ==
    [Car |-> <<
        [service |-> "General Service", interval_months |-> 6, interval_km |-> 10000, cost_range |-> <<2500, 5000>>],
        [service |-> "Oil Change", interval_months |-> 12, interval_km |-> 10000, cost_range |-> <<2000, 3500>>],
        [service |-> "Brake Service", interval_months |-> 24, interval_km |-> 20000, cost_range |-> <<3000, 8000>>],
        [service |-> "Major Service", interval_months |-> 24, interval_km |-> 40000, cost_range |-> <<8000, 15000>>],
        [service |-> "Tire Replacement", interval_months |-> 48, interval_km |-> 50000, cost_range |-> <<18000, 40000>>] >>,
     Bike |-> <<
        [service |-> "General Service", interval_months |-> 3, interval_km |-> 3000, cost_range |-> <<800, 1500>>],
        [service |-> "Oil Change", interval_months |-> 6, interval_km |-> 4000, cost_range |-> <<500, 900>>],
        [service |-> "Chain Service", interval_months |-> 12, interval_km |-> 15000, cost_range |-> <<1500, 3000>>],
        [service |-> "Brake Pads", interval_months |-> 12, interval_km |-> 10000, cost_range |-> <<700, 1500>>],
        [service |-> "Tire Replacement", interval_months |-> 36, interval_km |-> 30000, cost_range |-> <<4000, 8000>>] >>,
     Scooter |-> <<
        [service |-> "General Service", interval_months |-> 4, interval_km |-> 4000, cost_range |-> <<700, 1200>>],
        [service |-> "Oil Change", interval_months |-> 6, interval_km |-> 6000, cost_range |-> <<400, 700>>],
        [service |-> "Brake Service", interval_months |-> 12, interval_km |-> 10000, cost_range |-> <<600, 1200>>],
        [service |-> "CVT & Transmission Service", interval_months |-> 24, interval_km |-> 20000, cost_range |-> <<1000, 2500>>],
        [service |-> "Tire Replacement", interval_months |-> 36, interval_km |-> 25000, cost_range |-> <<3000, 6000>>] >>]

SERVICE_PARTS ==
    [Car |-> (
        "General Service" :> <<"Engine Oil", "Oil Filter", "Air Filter", "Coolant", "Wiper Fluid">> @@
        "Oil Change" :> <<"Engine Oil", "Oil Filter">> @@
        "Brake Service" :> <<"Brake Pads", "Brake Fluid", "Brake Discs">> @@
        "Major Service" :> <<"Engine Oil", "Oil Filter", "Air Filter", "Spark Plugs", "Fuel Filter", "Coolant">> @@
        "Tire Replacement" :> <<"Tires", "Wheel Alignment", "Wheel Balancing">>),
     Bike |-> (
        "General Service" :> <<"Engine Oil", "Air Filter", "Chain Lubrication", "Brake Check">> @@
        "Oil Change" :> <<"Engine Oil", "Oil Filter">> @@
        "Chain Service" :> <<"Chain", "Front Sprocket", "Rear Sprocket">> @@
        "Brake Pads" :> <<"Front Brake Pads", "Rear Brake Pads", "Brake Fluid">> @@
        "Tire Replacement" :> <<"Front Tire", "Rear Tire", "Tube">>),
     Scooter |-> (
        "General Service" :> <<"Engine Oil", "Air Filter", "Spark Plug", "Brake Check">> @@
        "Oil Change" :> <<"Engine Oil">> @@
        "Brake Service" :> <<"Brake Pads", "Brake Shoes", "Brake Fluid">> @@
        "CVT & Transmission Service" :> <<"CVT Belt", "Rollers", "Gear Oil">> @@
        "Tire Replacement" :> <<"Front Tire", "Rear Tire", "Tube">>)]

\* the multipliers in tenths: 1.2 is 12
USAGE_MULTIPLIERS ==
    [City       |-> [service_frequency |-> 12, parts_wear |-> 11],
     Highway    |-> [service_frequency |-> 9,  parts_wear |-> 8],
     Mixed      |-> [service_frequency |-> 10, parts_wear |-> 10],
     Commercial |-> [service_frequency |-> 15, parts_wear |-> 14]]

\* faulty variant: the quotient rounded up instead of truncated
AdjustedInterval_RoundsUp(interval, tenths) ==
    (interval * 10 + tenths - 1) \div tenths

\* int(interval / multiplier) with the multiplier in tenths
AdjustedInterval(interval, tenths) == (interval * 10) \div tenths

(* The rule evaluators *)

\* faulty variant: a vehicle entered without a price is taken as heavily used
get_recommended_parts_ReadsPrice(vd) ==
    LET usage == IF Get(vd, "price", 0) = 0 THEN "Commercial" ELSE Get(vd, "usage", "Mixed")
    IN  sorted((IF Get(vd, "current_km", 0) > 80000
                THEN {"Spark Plugs", "Suspension Components"} ELSE {})
               \cup (IF usage = "City" THEN {"Brake Pads", "Air Filter"} ELSE {})
               \cup (IF usage = "Commercial"
                     THEN {"Engine Oil", "Brake Pads", "Suspension Components", "Tires"}
                     ELSE {}))

\* faulty variant: the 50000 km rule includes its lower end
get_recommended_parts_From50000(vd) ==
    LET current_km == Get(vd, "current_km", 0)
        usage      == Get(vd, "usage", "Mixed")
        v_type     == Get(vd, "type", None)
    IN  sorted((IF 50000 <= current_km /\ current_km <= 80000
                THEN {"Brake Pads", "Tires"} ELSE {})
               \cup (IF current_km > 80000
                     THEN {"Spark Plugs", "Suspension Components"} ELSE {})
               \cup (IF usage = "City" THEN {"Brake Pads", "Air Filter"} ELSE {})
               \cup (IF usage = "Commercial"
                     THEN {"Engine Oil", "Brake Pads", "Suspension Components", "Tires"}
                     ELSE {})
               \cup (IF v_type = "Car" /\ current_km > 80000 THEN {"Timing Belt"} ELSE {})
               \cup (IF v_type = "Car" /\ current_km > 100000 THEN {"Water Pump"} ELSE {})
               \cup (IF v_type = "Car" /\ usage = "City" THEN {"Clutch Assembly"} ELSE {})
               \cup (IF v_type = "Bike" /\ usage = "City" THEN {"Clutch Plates"} ELSE {})
               \cup (IF v_type = "Scooter" /\ 20000 < current_km /\ current_km <= 40000
                     THEN {"CVT Belt"} ELSE {}))

get_recommended_parts(vd) ==
    LET current_km == Get(vd, "current_km", 0)
        usage      == Get(vd, "usage", "Mixed")
        v_type     == Get(vd, "type", None)
        general ==
            (IF 50000 < current_km /\ current_km <= 80000
             THEN <<"Brake Pads", "Tires">> ELSE <<>>)
            \o (IF current_km > 80000
                THEN <<"Spark Plugs", "Suspension Components">> ELSE <<>>)
            \o (IF usage = "City" THEN <<"Brake Pads", "Air Filter">>
                ELSE IF usage = "Commercial"
                THEN <<"Engine Oil", "Brake Pads", "Suspension Components", "Tires">>
                ELSE <<>>)
        by_type ==
            IF v_type = "Car" THEN
                (IF current_km > 80000 THEN <<"Timing Belt">> ELSE <<>>)
                \o (IF current_km > 100000 THEN <<"Water Pump">> ELSE <<>>)
                \o (IF usage = "City" THEN <<"Clutch Assembly">> ELSE <<>>)
            ELSE IF v_type = "Bike" THEN
                (IF usage = "City" THEN <<"Clutch Plates">> ELSE <<>>)
            ELSE IF v_type = "Scooter" THEN
                (IF 20000 < current_km /\ current_km <= 40000
                 THEN <<"CVT Belt">> ELSE <<>>)
            ELSE <<>>
    IN  sorted(Range(general \o by_type))

\* the multiplier record calculate_service_due uses for a usage value
MultiplierFor(usage) ==
    IF usage \in DOMAIN USAGE_MULTIPLIERS
    THEN USAGE_MULTIPLIERS[usage] ELSE USAGE_MULTIPLIERS["Mixed"]

adjusted_interval_months(service_info, usage) ==
    AdjustedInterval(service_info.interval_months, MultiplierFor(usage).service_frequency)

adjusted_interval_km(service_info, usage) ==
    AdjustedInterval(service_info.interval_km, MultiplierFor(usage).parts_wear)

\* the date/kilometre reading the intervals are counted from
last_time_service_km(vd, service_name) ==
    Get(vd, "last_service_km_" \o service_name, Get(vd, "initial_km", 0))

last_time_service_date(vd, service_name) ==
    Get(vd, "last_service_date_" \o service_name, vd.purchase_date)

\* months_since_last >= adjusted_interval_months, months being days / 30.44
time_due(vd, current_date, service_info) ==
    LET m == adjusted_interval_months(service_info, Get(vd, "usage", "Mixed"))
        days == current_date - last_time_service_date(vd, service_info.service)
    IN  m > 0 /\ days * 100 >= m * 3044

\* faulty variant: the kilometre interval must be exceeded, not reached
km_due_Strict(vd, service_info) ==
    LET k == adjusted_interval_km(service_info, Get(vd, "usage", "Mixed"))
        km_since_last == Get(vd, "current_km", 0)
                            - last_time_service_km(vd, service_info.service)
    IN  k > 0 /\ km_since_last > k

km_due(vd, service_info) ==
    LET k == adjusted_interval_km(service_info, Get(vd, "usage", "Mixed"))
        km_since_last == Get(vd, "current_km", 0)
                            - last_time_service_km(vd, service_info.service)
    IN  k > 0 /\ km_since_last >= k

\* faulty variant: the overdue days are counted from the purchase date even
\* when a later service is recorded
days_overdue_FromPurchase(vd, current_date, service_info) ==
    LET m == adjusted_interval_months(service_info, Get(vd, "usage", "Mixed"))
        raw == IF time_due(vd, current_date, service_info)
               THEN current_date - (vd.purchase_date + (m * 3044) \div 100)
               ELSE 0
    IN  IF raw > 0 THEN raw ELSE 0

\* last_date + timedelta(days = m * 30.44) keeps the whole days only
days_overdue(vd, current_date, service_info) ==
    LET m == adjusted_interval_months(service_info, Get(vd, "usage", "Mixed"))
        raw == IF time_due(vd, current_date, service_info)
               THEN current_date
                      - (last_time_service_date(vd, service_info.service)
                           + (m * 3044) \div 100)
               ELSE 0
    IN  IF raw > 0 THEN raw ELSE 0

\* faulty variant: the time condition hides the kilometre condition
due_reason_TimeOnly(vd, current_date, service_info) ==
    IF time_due(vd, current_date, service_info) THEN "Time Interval"
    ELSE IF km_due(vd, service_info) THEN "Kilometer Reading"
    ELSE ""

\* ' & '.join(reason)
due_reason(vd, current_date, service_info) ==
    IF time_due(vd, current_date, service_info) /\ km_due(vd, service_info)
    THEN "Time Interval" \o " & " \o "Kilometer Reading"
    ELSE IF time_due(vd, current_date, service_info) THEN "Time Interval"
    ELSE IF km_due(vd, service_info) THEN "Kilometer Reading"
    ELSE ""

\* faulty variant: the parts are looked up under "Car" for every vehicle
calculate_service_due_CarParts(vd, current_date) ==
    LET vehicle_type == vd.type
    IN  IF vehicle_type \notin DOMAIN SERVICE_SCHEDULES THEN <<>>
        ELSE
          LET sched == SERVICE_SCHEDULES[vehicle_type]
              entry(si) ==
                  [service      |-> si.service,
                   due_reason   |-> due_reason(vd, current_date, si),
                   days_overdue |-> days_overdue(vd, current_date, si),
                   cost_range   |-> si.cost_range,
                   parts        |-> Get(SERVICE_PARTS["Car"], si.service, <<>>)]
              loop[i \in 0..Len(sched)] ==
                  IF i = 0 THEN <<>>
                  ELSE IF time_due(vd, current_date, sched[i]) \/ km_due(vd, sched[i])
                       THEN Append(loop[i - 1], entry(sched[i]))
                       ELSE loop[i - 1]
          IN  loop[Len(sched)]

calculate_service_due(vd, current_date) ==
    LET vehicle_type == vd.type
    IN  IF vehicle_type \notin DOMAIN SERVICE_SCHEDULES THEN <<>>
        ELSE
          LET sched == SERVICE_SCHEDULES[vehicle_type]
              entry(si) ==
                  [service      |-> si.service,
                   due_reason   |-> due_reason(vd, current_date, si),
                   days_overdue |-> days_overdue(vd, current_date, si),
                   cost_range   |-> si.cost_range,
                   parts        |-> Get(SERVICE_PARTS[vehicle_type], si.service, <<>>)]
              loop[i \in 0..Len(sched)] ==
                  IF i = 0 THEN <<>>
                  ELSE IF time_due(vd, current_date, sched[i]) \/ km_due(vd, sched[i])
                       THEN Append(loop[i - 1], entry(sched[i]))
                       ELSE loop[i - 1]
          IN  loop[Len(sched)]

\* Maintenance Schedule page: the card of a service carries the note
\* "This service might be overdue."
overdue_note(service) == service.days_overdue > 7

(* The session: Add Vehicle, Update Kilometers and the pages that evaluate *)
(* the rules                                                             *)

\* the first brand and model of each vehicle type
VEHICLE_DATA ==
    [Car     |-> [brand |-> "Maruti Suzuki", model |-> "Swift",
                  price_range |-> <<600000, 900000>>],
     Bike    |-> [brand |-> "Hero MotoCorp", model |-> "Splendor Plus",
                  price_range |-> <<75000, 80000>>],
     Scooter |-> [brand |-> "Honda", model |-> "Activa",
                  price_range |-> <<75000, 90000>>]]

\* int(np.mean(price_range))
default_price(type) ==
    (VEHICLE_DATA[type].price_range[1] + VEHICLE_DATA[type].price_range[2]) \div 2

\* faulty variant: the initial reading is not taken from the form
new_vehicle_ZeroInitial(type, brand, model, year, purchase_date, price, current_km, usage) ==
    [type |-> type, brand |-> brand, model |-> model, year |-> year,
     purchase_date |-> purchase_date, price |-> price,
     current_km |-> current_km, initial_km |-> 0, usage |-> usage]

\* the record built when the Add Vehicle form is submitted
new_vehicle(type, brand, model, year, purchase_date, price, current_km, usage) ==
    [type |-> type, brand |-> brand, model |-> model, year |-> year,
     purchase_date |-> purchase_date, price |-> price,
     current_km |-> current_km, initial_km |-> current_km, usage |-> usage]

\* the number of vehicles a session registers
MaxVehicles == 2

UsagePatterns == {"City", "Highway", "Mixed", "Commercial"}

\* values entered in the kilometre fields (min_value = 0)
KmFormInputs == {0, 60000}

\* purchase dates entered in the form (max_value = today)
PurchaseDateInputs == {0 - 400}

Init ==
    /\ vehicles = <<>>
    /\ parts_cache = EmptyDict
    /\ today = 0
    /\ locator_view = NoLocatorView
    /\ submissions = 0
    /\ vehicle_data = NoVehicle
    /\ services_due = NotCalled
    /\ recommended_parts = NotCalled
    /\ wiki_call = NotCalled
    /\ wiki_result = NotCalled
    /\ net_log = <<>>
    /\ ai_resource = Unloaded
    /\ details_memo = EmptyDict
    /\ format_memo = EmptyDict
    /\ current_part_info = Unset
    /\ formatted_part_info = Unset
    /\ ai_view = NoView

\* Add Vehicle page: the form is submitted
AddVehicle ==
    /\ Len(vehicles) < MaxVehicles
    /\ \E type \in DOMAIN VEHICLE_DATA, usage \in UsagePatterns,
          current_km \in KmFormInputs, purchase_date \in PurchaseDateInputs :
          /\ purchase_date <= today
          /\ vehicles' = Append(vehicles,
                new_vehicle(type, VEHICLE_DATA[type].brand, VEHICLE_DATA[type].model,
                            2000, purchase_date, default_price(type),
                            current_km, usage))
    /\ submissions' = submissions + 1
    /\ vehicle_data' = NoVehicle
    /\ services_due' = NotCalled
    /\ recommended_parts' = NotCalled
    /\ UNCHANGED <<parts_cache, today, locator_view, wiki, ai>>

\* Maintenance Schedule page: a vehicle is selected and its due services shown
MaintenanceSchedule ==
    /\ vehicles # <<>>
    /\ \E selected_vehicle_idx \in DOMAIN vehicles :
          /\ vehicle_data' = vehicles[selected_vehicle_idx]
          /\ services_due' = calculate_service_due(vehicles[selected_vehicle_idx], today)
    /\ recommended_parts' = NotCalled
    /\ UNCHANGED <<vehicles, parts_cache, today, locator_view, submissions, wiki, ai>>

\* faulty variant: the input is not bounded below by the stored reading
KmUpdateInputs_Unbounded(selected_vehicle) == KmFormInputs

\* number_input(min_value = current_km): the readings that can be entered
KmUpdateInputs(selected_vehicle) ==
    {km \in KmFormInputs : km >= Get(selected_vehicle, "current_km", 0)}

\* Maintenance Schedule page: Update Kilometers is pressed, the page reruns
UpdateKilometers ==
    /\ vehicles # <<>>
    /\ \E selected_vehicle_idx \in DOMAIN vehicles :
        \E new_km \in KmUpdateInputs(vehicles[selected_vehicle_idx]) :
          /\ vehicles' = [vehicles EXCEPT ![selected_vehicle_idx].current_km = new_km]
          /\ vehicle_data' = vehicles'[selected_vehicle_idx]
          /\ services_due' = calculate_service_due(vehicles'[selected_vehicle_idx], today)
    /\ recommended_parts' = NotCalled
    /\ UNCHANGED <<parts_cache, today, locator_view, submissions, wiki, ai>>

\* Dashboard page: both evaluators run for every vehicle of the fleet; the
\* script's variables keep the results for the last one
Dashboard ==
    /\ vehicles # <<>>
    /\ vehicle_data' = vehicles[Len(vehicles)]
    /\ services_due' = calculate_service_due(vehicles[Len(vehicles)], today)
    /\ recommended_parts' = get_recommended_parts(vehicles[Len(vehicles)])
    /\ UNCHANGED <<vehicles, parts_cache, today, locator_view, submissions, wiki, ai>>

Next == AddVehicle \/ MaintenanceSchedule \/ UpdateKilometers \/ Dashboard

Spec == Init /\ [][Next]_vars

(* Wikimedia lookups.  What the network answers is an argument of each   *)
(* function: a response is what requests.get returned or raised.        *)

\* requests.exceptions.RequestException
RequestException == [kind |-> "RequestException", text |-> "timed out"]

\* a search answer: data['query']['search'] as a list of titles
SearchFound(titles) == [kind |-> "ok", search |-> titles]

\* a summary answer: the single entry of data['query']['pages']
PageFound(page_id, page) == [kind |-> "ok", page_id |-> page_id, page |-> page]

\* the title of the first search hit, None without a hit or on an error
search_wikimedia(query, project, response) ==
    IF response.kind = "ok" /\ response.search # <<>>
    THEN response.search[1]
    ELSE None

\* re.sub(r'\n+', '\n', s)
collapse_newlines(s) ==
    LET out[i \in 0..Len(s)] ==
            IF i = 0 THEN ""
            ELSE IF i > 1 /\ CharAt(s, i) = "\n" /\ CharAt(s, i - 1) = "\n"
                 THEN out[i - 1]
                 ELSE out[i - 1] \o CharAt(s, i)
    IN  out[Len(s)]

IsSpace(c) == c \in {" ", "\n"}

\* str.strip()
strip(s) ==
    LET kept == {i \in 1..Len(s) : ~IsSpace(CharAt(s, i))}
    IN  IF kept = {} THEN ""
        ELSE SubSeq(s, CHOOSE i \in kept : \A j \in kept : i <= j,
                       CHOOSE i \in kept : \A j \in kept : i >= j)

cache_key(project, title) == project \o "_" \o title

\* faulty variant: the answer for a missing page is stored as well
get_wikimedia_summary_StoresFallback(title, project, cache, response) ==
    LET key == cache_key(project, title)
        page == response.page
    IN  IF title = None \/ title = "" THEN
            [ret |-> "No relevant article found.", cache |-> cache, request |-> FALSE]
        ELSE IF key \in DOMAIN cache THEN
            [ret |-> cache[key], cache |-> cache, request |-> FALSE]
        ELSE IF response.kind = "RequestException" THEN
            [ret |-> "Network error retrieving information: " \o response.text,
             cache |-> cache, request |-> TRUE]
        ELSE IF /\ response.page_id # "-1"
                /\ "extract" \in DOMAIN page
                /\ page.extract # "" THEN
            LET summary == strip(collapse_newlines(page.extract))
            IN  [ret |-> summary,
                 cache |-> (key :> summary) @@ cache, request |-> TRUE]
        ELSE
            [ret |-> "Information not available.",
             cache |-> (key :> "Information not available.") @@ cache,
             request |-> TRUE]

\* faulty variant: the cache keeps the newest summary only
get_wikimedia_summary_KeepsOne(title, project, cache, response) ==
    LET key == cache_key(project, title)
        page == response.page
    IN  IF title = None \/ title = "" THEN
            [ret |-> "No relevant article found.", cache |-> cache, request |-> FALSE]
        ELSE IF key \in DOMAIN cache THEN
            [ret |-> cache[key], cache |-> cache, request |-> FALSE]
        ELSE IF response.kind = "RequestException" THEN
            [ret |-> "Network error retrieving information: " \o response.text,
             cache |-> cache, request |-> TRUE]
        ELSE IF /\ response.page_id # "-1"
                /\ "extract" \in DOMAIN page
                /\ page.extract # "" THEN
            LET summary == strip(collapse_newlines(page.extract))
            IN  [ret |-> summary, cache |-> key :> summary, request |-> TRUE]
        ELSE
            [ret |-> "Information not available.", cache |-> cache, request |-> TRUE]

\* returns the summary (ret), the parts cache after the call (cache) and
\* whether a request was sent (request)
get_wikimedia_summary(title, project, cache, response) ==
    LET key == cache_key(project, title)
        page == response.page
    IN  IF title = None \/ title = "" THEN
            [ret |-> "No relevant article found.", cache |-> cache, request |-> FALSE]
        ELSE IF key \in DOMAIN cache THEN
            [ret |-> cache[key], cache |-> cache, request |-> FALSE]
        ELSE IF response.kind = "RequestException" THEN
            [ret |-> "Network error retrieving information: " \o response.text,
             cache |-> cache, request |-> TRUE]
        ELSE IF /\ response.page_id # "-1"
                /\ "extract" \in DOMAIN page
                /\ page.extract # "" THEN
            LET summary == strip(collapse_newlines(page.extract))
            IN  [ret |-> summary,
                 cache |-> (key :> summary) @@ cache, request |-> TRUE]
        ELSE
            [ret |-> "Information not available.", cache |-> cache, request |-> TRUE]

\* log entries
SearchEntry(project, query, title) ==
    [op |-> "search", project |-> project, query |-> query, title |-> title]

SummaryEntry(project, title, out) ==
    [op |-> "summary", project |-> project, title |-> title,
     request |-> out.request, ret |-> out.ret]

\* faulty variant: the bare part name is searched as well when the first search
\* found a title, and its hit preferred
get_part_information_SearchesTwice(part_name, cache, r1, r2, r3) ==
    LET search_query == "Automotive " \o part_name
        title1 == search_wikimedia(search_query, "wikipedia", r1)
        title2 == search_wikimedia(part_name, "wikipedia", r2)
        title  == IF title2 # None THEN title2 ELSE title1
        out    == get_wikimedia_summary(title, "wikipedia", cache, r3)
        log    == << SearchEntry("wikipedia", search_query, title1),
                     SearchEntry("wikipedia", part_name, title2) >>
    IN  IF title # None /\ title # ""
        THEN [ret |-> out.ret, cache |-> out.cache,
              log |-> Append(log, SummaryEntry("wikipedia", title, out))]
        ELSE [ret |-> "Information not available for this part.",
              cache |-> cache, log |-> log]

\* r1, r2: the answers to the two searches; r3: the answer to the summary
\* request; an answer is used only if its request is sent
get_part_information(part_name, cache, r1, r2, r3) ==
    LET search_query == "Automotive " \o part_name
        title1 == search_wikimedia(search_query, "wikipedia", r1)
        title2 == search_wikimedia(part_name, "wikipedia", r2)
        out1   == get_wikimedia_summary(title1, "wikipedia", cache, r3)
        out2   == get_wikimedia_summary(title2, "wikipedia", cache, r3)
        log1   == << SearchEntry("wikipedia", search_query, title1) >>
        log2   == Append(log1, SearchEntry("wikipedia", part_name, title2))
    IN  IF title1 # None /\ title1 # ""
        THEN [ret |-> out1.ret, cache |-> out1.cache,
              log |-> Append(log1, SummaryEntry("wikipedia", title1, out1))]
        ELSE IF title2 # None /\ title2 # ""
        THEN [ret |-> out2.ret, cache |-> out2.cache,
              log |-> Append(log2, SummaryEntry("wikipedia", title2, out2))]
        ELSE [ret |-> "Information not available for this part.",
              cache |-> cache, log |-> log2]

query_map ==
    [Car     |-> "Automobile Maintenance",
     Bike    |-> "Motorcycle Maintenance",
     Scooter |-> "Motor scooter maintenance"]

\* summary and "not available" not in summary.lower()
usable_summary(summary) ==
    \E text \in {summary} :
        text # "" /\ \A low \in {lower(text)} : ~Contains("not available", low)

\* faulty variant: Wikipedia is asked first
get_maintenance_tips_WikipediaFirst(vehicle_type, cache, rs1, rp1, rs2, rp2) ==
    LET search_term == Get(query_map, vehicle_type,
                           "Automobile Maintenance/" \o vehicle_type)
        title2 == search_wikimedia("Automobile maintenance", "wikipedia", rs2)
        out2   == get_wikimedia_summary(title2, "wikipedia", cache, rp2)
        log2   == << SearchEntry("wikipedia", "Automobile maintenance", title2) >>
                    \o (IF title2 # None /\ title2 # ""
                        THEN << SummaryEntry("wikipedia", title2, out2) >> ELSE <<>>)
        cache2 == IF title2 # None /\ title2 # "" THEN out2.cache ELSE cache
        title1 == search_wikimedia(search_term, "wikibooks", rs1)
        out1   == get_wikimedia_summary(title1, "wikibooks", cache2, rp1)
        log1   == Append(log2, SearchEntry("wikibooks", search_term, title1))
                    \o (IF title1 # None /\ title1 # ""
                        THEN << SummaryEntry("wikibooks", title1, out1) >> ELSE <<>>)
        cache1 == IF title1 # None /\ title1 # "" THEN out1.cache ELSE cache2
    IN  IF title2 # None /\ title2 # "" /\ usable_summary(out2.ret)
        THEN [ret |-> <<out2.ret, "Wikipedia">>, cache |-> cache2, log |-> log2]
        ELSE IF title1 # None /\ title1 # "" /\ usable_summary(out1.ret)
        THEN [ret |-> <<out1.ret, "Wikibooks">>, cache |-> cache1, log |-> log1]
        ELSE [ret |-> <<"General maintenance tips not available.", "N/A">>,
              cache |-> cache1, log |-> log1]

\* rs1, rp1: the answers of Wikibooks to the search and the summary request;
\* rs2, rp2: those of Wikipedia
get_maintenance_tips(vehicle_type, cache, rs1, rp1, rs2, rp2) ==
    LET search_term == Get(query_map, vehicle_type,
                           "Automobile Maintenance/" \o vehicle_type)
        title1 == search_wikimedia(search_term, "wikibooks", rs1)
        out1   == get_wikimedia_summary(title1, "wikibooks", cache, rp1)
        log1   == << SearchEntry("wikibooks", search_term, title1) >>
                    \o (IF title1 # None /\ title1 # ""
                        THEN << SummaryEntry("wikibooks", title1, out1) >> ELSE <<>>)
        cache1 == IF title1 # None /\ title1 # "" THEN out1.cache ELSE cache
        title2 == search_wikimedia("Automobile maintenance", "wikipedia", rs2)
        out2   == get_wikimedia_summary(title2, "wikipedia", cache1, rp2)
        log2   == Append(log1, SearchEntry("wikipedia", "Automobile maintenance", title2))
                    \o (IF title2 # None /\ title2 # ""
                        THEN << SummaryEntry("wikipedia", title2, out2) >> ELSE <<>>)
        cache2 == IF title2 # None /\ title2 # "" THEN out2.cache ELSE cache1
    IN  IF title1 # None /\ title1 # "" /\ usable_summary(out1.ret)
        THEN [ret |-> <<out1.ret, "Wikibooks">>, cache |-> cache1, log |-> log1]
        ELSE IF title2 # None /\ title2 # "" /\ usable_summary(out2.ret)
        THEN [ret |-> <<out2.ret, "Wikipedia">>, cache |-> cache2, log |-> log2]
        ELSE [ret |-> <<"General maintenance tips not available.", "N/A">>,
              cache |-> cache2, log |-> log2]

\* what the network can answer in the model
Titles == {"Brake pad", "Car care"}

Extracts == {"Pads.\n\nOk\n", "\n"}

SearchResponses ==
    {RequestException, SearchFound(<<>>)} \cup {SearchFound(<<t>>) : t \in Titles}

SummaryResponses ==
    {RequestException, PageFound("-1", [title |-> "x"]), PageFound("7", [title |-> "x"]),
     PageFound("7", [title |-> "x", extract |-> ""])}
    \cup {PageFound("7", [title |-> "x", extract |-> e]) : e \in Extracts}

\* the answer to a request that is not sent
NoRequest == [kind |-> "NoRequest"]

\* answers to the request a call sends only if cond holds
AnswersIf(cond, responses) == IF cond THEN responses ELSE {NoRequest}

\* get_wikimedia_summary(title, project) sends a request
Fetches(title, project, cache) ==
    title # None /\ cache_key(project, title) \notin DOMAIN cache

\* parts offered by the Parts Encyclopedia page
PartNames == {"Brake Pads", "Engine Oil"}

GetPartInformation ==
    /\ \E part_name \in PartNames, r1 \in SearchResponses :
        \E r2 \in AnswersIf(search_wikimedia("", "wikipedia", r1) = None, SearchResponses) :
          LET title == IF r2 = NoRequest THEN search_wikimedia("", "wikipedia", r1)
                       ELSE search_wikimedia("", "wikipedia", r2)
          IN  \E r3 \in AnswersIf(Fetches(title, "wikipedia", parts_cache), SummaryResponses) :
                LET out == get_part_information(part_name, parts_cache, r1, r2, r3)
                IN  /\ wiki_call' = <<"get_part_information", part_name>>
                    /\ wiki_result' = out.ret
                    /\ parts_cache' = out.cache
                    /\ net_log' = out.log
    /\ UNCHANGED <<vehicles, today, locator_view, submissions, rules, ai>>

GetMaintenanceTips ==
    /\ \E vehicle_type \in DOMAIN query_map, rs1 \in SearchResponses :
        LET title1 == search_wikimedia("", "wikibooks", rs1)
        IN  \E rp1 \in AnswersIf(Fetches(title1, "wikibooks", parts_cache), SummaryResponses) :
              LET out1 == get_wikimedia_summary(title1, "wikibooks", parts_cache, rp1)
                  again == title1 = None \/ ~usable_summary(out1.ret)
              IN  \E rs2 \in AnswersIf(again, SearchResponses) :
                    LET title2 == IF again THEN search_wikimedia("", "wikipedia", rs2)
                                  ELSE None
                    IN  \E rp2 \in AnswersIf(Fetches(title2, "wikipedia", out1.cache),
                                             SummaryResponses) :
                          LET out == get_maintenance_tips(vehicle_type, parts_cache,
                                                          rs1, rp1, rs2, rp2)
                          IN  /\ wiki_call' = <<"get_maintenance_tips", vehicle_type>>
                              /\ wiki_result' = out.ret
                              /\ parts_cache' = out.cache
                              /\ net_log' = out.log
    /\ UNCHANGED <<vehicles, today, locator_view, submissions, rules, ai>>

NextWiki == GetPartInformation \/ GetMaintenanceTips

SpecWiki == Init /\ [][NextWiki]_vars

(* get_wikimedia_summary called on its own (SpecSummary) *)

\* titles passed to get_wikimedia_summary: no title, the empty title and
\* the titles a search finds
SummaryTitles == {None, ""} \cup Titles

Projects == {"wikipedia", "wikibooks"}

\* one call of get_wikimedia_summary(title, project) on the session's cache
GetWikimediaSummary ==
    /\ \E title \in SummaryTitles, project \in Projects :
        \E response \in AnswersIf(/\ title \notin {None, ""}
                                  /\ cache_key(project, title) \notin DOMAIN parts_cache,
                                  SummaryResponses) :
          LET out == get_wikimedia_summary(title, project, parts_cache, response)
          IN  /\ wiki_call' = <<"get_wikimedia_summary", title, project, response>>
              /\ wiki_result' = out.ret
              /\ parts_cache' = out.cache
              /\ net_log' = <<SummaryEntry(project, title, out)>>
    /\ UNCHANGED <<vehicles, today, locator_view, submissions, rules, ai>>

NextSummary == GetWikimediaSummary

SpecSummary == Init /\ [][NextSummary]_vars

(* AI text generation and the pages that use it *)

\* the object pipeline("text2text-generation", ...) returns
AIPipe == "pipeline"

\* st.cache_resource: the first call decides, later calls get the same
\* object; loaded is what pipeline() gives on that first call, None when
\* it raised
load_ai_model(resource, loaded) ==
    IF resource # Unloaded THEN resource ELSE loaded

\* outputs and isinstance(outputs, list) and 'generated_text' in outputs[0]
usable_outputs(outputs) ==
    outputs # <<>> /\ "generated_text" \in DOMAIN outputs[1]

\* st.cache_data: the arguments without a leading underscore are the key
Memoized(memo, key, value) ==
    IF key \in DOMAIN memo
    THEN [ret |-> memo[key], memo |-> memo, hit |-> TRUE]
    ELSE [ret |-> value, memo |-> (key :> value) @@ memo, hit |-> FALSE]

\* faulty variant: an unusable output is passed on as text
generate_ai_details_NoFallback(pipe, service_name, vehicle_type, vehicle_model, memo, outputs) ==
    Memoized(memo, <<service_name, vehicle_type, vehicle_model>>,
        IF pipe = None THEN "AI model is not available."
        ELSE IF usable_outputs(outputs) THEN outputs[1].generated_text
        ELSE "")

\* outputs: what the pipeline returns if it is run
generate_ai_details(pipe, service_name, vehicle_type, vehicle_model, memo, outputs) ==
    Memoized(memo, <<service_name, vehicle_type, vehicle_model>>,
        IF pipe = None THEN "AI model is not available."
        ELSE IF usable_outputs(outputs) THEN outputs[1].generated_text
        ELSE "Could not generate AI response. Please try again.")

\* faulty variant: an unusable output leaves nothing to show
format_text_with_ai_DropsText(pipe, text_to_format, context_prompt, memo, outputs) ==
    Memoized(memo, <<text_to_format, context_prompt>>,
        IF pipe = None THEN text_to_format
        ELSE IF usable_outputs(outputs) THEN outputs[1].generated_text
        ELSE "")

format_text_with_ai(pipe, text_to_format, context_prompt, memo, outputs) ==
    Memoized(memo, <<text_to_format, context_prompt>>,
        IF pipe = None THEN text_to_format
        ELSE IF usable_outputs(outputs) THEN outputs[1].generated_text
        ELSE text_to_format)

\* what pipeline() and the pipeline can give in the model
LoadOutcomes == {AIPipe, None}

PipeOutputs == { <<[generated_text |-> "- Drain the oil"]>>, <<>>, <<[score |-> 1]>> }

\* the record of an AI call in a page run
AICall(fn, pipe, text, out, outputs) ==
    [fn |-> fn, pipe |-> pipe, text |-> text, hit |-> out.hit, ret |-> out.ret,
     outputs |-> IF out.hit \/ pipe = None THEN NoRequest ELSE outputs]

\* "not available" not in text.lower()
is_available(text) ==
    \A low \in {lower(text)} : ~Contains("not available", low)

\* Maintenance Schedule page: "Get AI-Powered Details" is pressed for a due
\* service of the selected vehicle
AIDetailsButton ==
    /\ vehicles # <<>>
    /\ \E selected_vehicle_idx \in DOMAIN vehicles :
        LET selected_vehicle == vehicles[selected_vehicle_idx]
            due == calculate_service_due(selected_vehicle, today)
        IN  /\ due # <<>>
            /\ vehicle_data' = selected_vehicle
            /\ services_due' = due
            /\ \E i \in DOMAIN due, loaded \in AnswersIf(ai_resource = Unloaded, LoadOutcomes) :
                LET ai_pipe == load_ai_model(ai_resource, loaded)
                IN  /\ ai_resource' = ai_pipe
                    /\ \E outputs \in AnswersIf(ai_pipe # None, PipeOutputs) :
                        LET out == generate_ai_details(ai_pipe, due[i].service,
                                       selected_vehicle.type, selected_vehicle.model,
                                       details_memo, outputs)
                        IN  IF ai_pipe # None
                            THEN /\ details_memo' = out.memo
                                 /\ ai_view' =
                                      [page |-> "Maintenance Schedule", error |-> "",
                                       wiki_text |-> "", shown |-> out.ret,
                                       calls |-> <<AICall("generate_ai_details", ai_pipe,
                                                          "", out, outputs)>>]
                            ELSE /\ details_memo' = details_memo
                                 /\ ai_view' =
                                      [page |-> "Maintenance Schedule",
                                       error |-> "AI Model is not available. Could not fetch details.",
                                       wiki_text |-> "", shown |-> "", calls |-> <<>>]
    /\ recommended_parts' = NotCalled
    /\ UNCHANGED <<vehicles, parts_cache, today, locator_view, submissions, wiki, format_memo,
                   current_part_info, formatted_part_info>>

\* the part of a page run that formats a wiki text if the model is there:
\* the text to show, the memo and the calls made
Formatted(ai_pipe, use_ai, text, context, memo, outputs) ==
    LET out == format_text_with_ai(ai_pipe, text, context, memo, outputs)
    IN  IF use_ai
        THEN [text |-> out.ret, memo |-> out.memo,
              calls |-> <<AICall("format_text_with_ai", ai_pipe, text, out, outputs)>>]
        ELSE [text |-> text, memo |-> memo, calls |-> <<>>]

\* Parts Encyclopedia page: "Get Information" is pressed; searches and
\* summaries are the answers the network can give in this run
PartsEncyclopedia(part_names, searches, summaries) ==
    /\ \E selected_part \in part_names, r1 \in searches :
        \E r2 \in AnswersIf(search_wikimedia("", "wikipedia", r1) = None, searches) :
          LET title == IF r2 = NoRequest THEN search_wikimedia("", "wikipedia", r1)
                       ELSE search_wikimedia("", "wikipedia", r2)
          IN  \E r3 \in AnswersIf(Fetches(title, "wikipedia", parts_cache), summaries),
                 loaded \in AnswersIf(ai_resource = Unloaded, LoadOutcomes) :
                LET info == get_part_information(selected_part, parts_cache, r1, r2, r3)
                    wiki_info == info.ret
                    ai_pipe == load_ai_model(ai_resource, loaded)
                    use_ai == ai_pipe # None /\ is_available(wiki_info)
                    context == "You are explaining the automotive part '"
                                  \o selected_part \o "' to a car owner."
                IN  \E outputs \in AnswersIf(use_ai, PipeOutputs) :
                      LET f == Formatted(ai_pipe, use_ai, wiki_info, context,
                                         format_memo, outputs)
                      IN  /\ parts_cache' = info.cache
                          /\ ai_resource' = ai_pipe
                          /\ format_memo' = f.memo
                          /\ current_part_info' = wiki_info
                          /\ formatted_part_info' = f.text
                          /\ ai_view' =
                                [page |-> "Parts Encyclopedia", error |-> "",
                                 wiki_text |-> wiki_info,
                                 shown |-> IF f.text # "" THEN f.text ELSE wiki_info,
                                 calls |-> f.calls]
    /\ UNCHANGED <<vehicles, today, locator_view, submissions, rules, wiki, details_memo>>

\* the vehicle types the Maintenance Tips page offers
vehicle_types_in_fleet ==
    IF vehicles = <<>> THEN {"Car", "Bike", "Scooter"}
    ELSE {vehicles[i].type : i \in DOMAIN vehicles}

\* Maintenance Tips page: "Get Tips" is pressed
MaintenanceTips(searches, summaries) ==
    /\ \E selected_type \in vehicle_types_in_fleet, rs1 \in searches :
        LET title1 == search_wikimedia("", "wikibooks", rs1)
        IN  \E rp1 \in AnswersIf(Fetches(title1, "wikibooks", parts_cache), summaries) :
              LET out1 == get_wikimedia_summary(title1, "wikibooks", parts_cache, rp1)
                  again == title1 = None \/ ~usable_summary(out1.ret)
              IN  \E rs2 \in AnswersIf(again, searches) :
                    LET title2 == IF again THEN search_wikimedia("", "wikipedia", rs2)
                                  ELSE None
                    IN  \E rp2 \in AnswersIf(Fetches(title2, "wikipedia", out1.cache),
                                             summaries) :
                        LET got == get_maintenance_tips(selected_type, parts_cache,
                                                        rs1, rp1, rs2, rp2)
                            tips == got.ret[1]
                        IN  \E loaded \in AnswersIf(is_available(tips) /\ ai_resource = Unloaded,
                                                    LoadOutcomes) :
                              LET ai_pipe == IF is_available(tips)
                                             THEN load_ai_model(ai_resource, loaded)
                                             ELSE None
                                  use_ai == is_available(tips) /\ ai_pipe # None
                                  context == "You are creating a maintenance guide for a "
                                                \o lower(selected_type) \o " owner."
                              IN  \E outputs \in AnswersIf(use_ai, PipeOutputs) :
                                    LET f == Formatted(ai_pipe, use_ai, tips, context,
                                                       format_memo, outputs)
                                    IN  /\ parts_cache' = got.cache
                                        /\ ai_resource' = IF is_available(tips)
                                                          THEN ai_pipe ELSE ai_resource
                                        /\ format_memo' = f.memo
                                        /\ ai_view' =
                                              IF is_available(tips)
                                              THEN [page |-> "Maintenance Tips", error |-> "",
                                                    wiki_text |-> tips, shown |-> f.text,
                                                    calls |-> f.calls]
                                              ELSE [page |-> "Maintenance Tips",
                                                    error |-> "Could not find specific maintenance tips for "
                                                                \o selected_type \o ".",
                                                    wiki_text |-> tips, shown |-> "",
                                                    calls |-> <<>>]
    /\ UNCHANGED <<vehicles, today, locator_view, submissions, rules, wiki, details_memo,
                   current_part_info, formatted_part_info>>

\* a session with one car, bought 200 days ago, whose General Service is due
InitAI ==
    /\ vehicles = << new_vehicle("Car", VEHICLE_DATA["Car"].brand, VEHICLE_DATA["Car"].model,
                                 2000, 0 - 200, default_price("Car"), 0, "Mixed") >>
    /\ submissions = 1
    /\ parts_cache = EmptyDict
    /\ today = 0
    /\ locator_view = NoLocatorView
    /\ vehicle_data = NoVehicle
    /\ services_due = NotCalled
    /\ recommended_parts = NotCalled
    /\ wiki_call = NotCalled
    /\ wiki_result = NotCalled
    /\ net_log = <<>>
    /\ ai_resource = Unloaded
    /\ details_memo = EmptyDict
    /\ format_memo = EmptyDict
    /\ current_part_info = Unset
    /\ formatted_part_info = Unset
    /\ ai_view = NoView

\* the answers of the network in SpecAI
SearchResponsesAI == {RequestException, SearchFound(<<"Car care">>)}

SummaryResponsesAI ==
    {PageFound("-1", [title |-> "x"]),
     PageFound("7", [title |-> "x", extract |-> "Pads.\n\nOk\n"])}

PartsEncyclopediaAI == PartsEncyclopedia({"Brake Pads"}, SearchResponsesAI, SummaryResponsesAI)

MaintenanceTipsAI == MaintenanceTips(SearchResponsesAI, SummaryResponsesAI)

NextAI == AIDetailsButton \/ PartsEncyclopediaAI \/ MaintenanceTipsAI

SpecAI == InitAI /\ [][NextAI]_vars

(* Service Locator page.  What the geocoding service answers is an       *)
(* argument: a location, None, or an exception raised by the call.       *)

\* ratings are kept in tenths: 4.5 is 45
SERVICE_CENTERS ==
    [Hyderabad |-> <<
        [name |-> "AutoCare Service Center", rating |-> 45,
         address |-> "Banjara Hills, Hyderabad, Telangana", phone |-> "+91-9876543210"],
        [name |-> "ProService Hub", rating |-> 47,
         address |-> "Gachibowli, Hyderabad, Telangana", phone |-> "+91-9876543212"],
        [name |-> "MegaAuto Care", rating |-> 42,
         address |-> "Kondapur, Hyderabad, Telangana", phone |-> "+91-9876543213"] >>,
     Mumbai |-> <<
        [name |-> "Mumbai Motors", rating |-> 46,
         address |-> "Andheri West, Mumbai, Maharashtra", phone |-> "+91-9123456780"],
        [name |-> "Speedy Service Point", rating |-> 43,
         address |-> "Bandra, Mumbai, Maharashtra", phone |-> "+91-9123456781"] >>]

SHOWROOMS ==
    [Hyderabad |-> <<
        [name |-> "Honda Pride Showroom", rating |-> 46,
         address |-> "Jubilee Hills, Hyderabad, Telangana", phone |-> "+91-8888888888"],
        [name |-> "Toyota Pinnacle Motors", rating |-> 44,
         address |-> "Madhapur, Hyderabad, Telangana", phone |-> "+91-7777777777"],
        [name |-> "Maruti Suzuki Arena", rating |-> 48,
         address |-> "Somajiguda, Hyderabad, Telangana", phone |-> "+91-6666666666"] >>,
     Mumbai |-> <<
        [name |-> "Honda Drive", rating |-> 47,
         address |-> "Worli, Mumbai, Maharashtra", phone |-> "+91-8123456780"],
        [name |-> "Bajaj Auto Exchange", rating |-> 45,
         address |-> "Dadar, Mumbai, Maharashtra", phone |-> "+91-8123456781"] >>]

UpperTable ==
    [c \in {CharAt(LowerCase, i) : i \in 1..Len(LowerCase)} |->
        CharAt(UpperCase, CHOOSE i \in 1..Len(LowerCase) : CharAt(LowerCase, i) = c)]

\* str.upper() of one character
UpperChar(c) == IF c \in DOMAIN UpperTable THEN UpperTable[c] ELSE c

IsCased(c) == c \in DOMAIN UpperTable \/ c \in DOMAIN LowerTable

\* str.title(): a letter after a character that is not a letter is put in
\* upper case, every other letter in lower case
str_title(s) ==
    LET out[i \in 0..Len(s)] ==
            IF i = 0 THEN ""
            ELSE IF i = 1 \/ ~IsCased(CharAt(s, i - 1))
                 THEN out[i - 1] \o UpperChar(CharAt(s, i))
                 ELSE out[i - 1] \o LowerChar(CharAt(s, i))
    IN  out[Len(s)]

\* urllib.parse.quote_plus for text made of letters, spaces and commas
quote_plus(s) ==
    LET out[i \in 0..Len(s)] ==
            IF i = 0 THEN ""
            ELSE IF CharAt(s, i) = " " THEN out[i - 1] \o "+"
            ELSE IF CharAt(s, i) = "," THEN out[i - 1] \o "%2C"
            ELSE out[i - 1] \o CharAt(s, i)
    IN  out[Len(s)]

\* every entry of the two tables
AllLocations ==
    UNION {Range(SERVICE_CENTERS[c]) : c \in DOMAIN SERVICE_CENTERS}
        \cup UNION {Range(SHOWROOMS[c]) : c \in DOMAIN SHOWROOMS}

\* the link of a marker's popup, for every entry of the tables
gmaps_url ==
    [loc \in AllLocations |->
        "https://www.google.com/maps/search/?api=1&query="
            \o quote_plus(loc.name \o ", " \o loc.address)]

\* answers of geolocator.geocode: a location, None, or an exception
Location == [kind |-> "Location", text |-> ""]
NoLocation == [kind |-> "None", text |-> ""]
GeocoderException == [kind |-> "Exception", text |-> "service timed out"]

GeocodeAnswers == {Location, NoLocation, GeocoderException}

\* the location geocode returns for a query it resolves
point_of(query) == [place |-> query]

\* a request to the geocoding service and the kind of its answer
GeocodeRequest(query, answer) == [query |-> query, kind |-> answer.kind]

\* folium.Marker(...) for one table entry
Marker(loc, point, color, icon) ==
    [location |-> point, tooltip |-> loc.name, color |-> color, icon |-> icon,
     popup |-> [name |-> loc.name, rating |-> loc.rating, phone |-> loc.phone,
                gmaps_url |-> gmaps_url[loc]]]

\* faulty variant: the first exception ends the loop over the addresses
add_location_marker_StopsAtException(location_list, category, color, icon, city, answers) ==
    LET locs == Get(location_list, city, <<>>)
        loop[i \in 0..Len(locs)] ==
            IF i = 0 THEN [markers |-> <<>>, printed |-> <<>>, requests |-> <<>>,
                           stopped |-> FALSE]
            ELSE IF loop[i - 1].stopped THEN loop[i - 1]
            ELSE
              LET before == loop[i - 1]
                  loc == locs[i]
                  requests == Append(before.requests,
                                     GeocodeRequest(loc.address, answers[i]))
              IN  IF answers[i].kind = "Exception" THEN
                      [before EXCEPT !.requests = requests, !.stopped = TRUE,
                          !.printed = Append(@, "Could not geocode address '"
                                     \o loc.address \o "': " \o answers[i].text)]
                  ELSE IF answers[i].kind = "Location" THEN
                      [before EXCEPT !.requests = requests,
                          !.markers = Append(@, Marker(loc, point_of(loc.address),
                                                       color, icon))]
                  ELSE [before EXCEPT !.requests = requests]
    IN  [markers |-> loop[Len(locs)].markers, printed |-> loop[Len(locs)].printed,
         requests |-> loop[Len(locs)].requests]

\* add_location_marker for the entries listed under city: the markers added
\* to the map, the lines printed and the geocoding requests made, in order;
\* answers[i] is the answer to the request for the i-th listed address
add_location_marker(location_list, category, color, icon, city, answers) ==
    LET locs == Get(location_list, city, <<>>)
        loop[i \in 0..Len(locs)] ==
            IF i = 0 THEN [markers |-> <<>>, printed |-> <<>>, requests |-> <<>>]
            ELSE
              LET before == loop[i - 1]
                  loc == locs[i]
                  requests == Append(before.requests,
                                     GeocodeRequest(loc.address, answers[i]))
              IN  IF answers[i].kind = "Exception" THEN
                      [before EXCEPT !.requests = requests,
                          !.printed = Append(@, "Could not geocode address '"
                                     \o loc.address \o "': " \o answers[i].text)]
                  ELSE IF answers[i].kind = "Location" THEN
                      [before EXCEPT !.requests = requests,
                          !.markers = Append(@, Marker(loc, point_of(loc.address),
                                                       color, icon))]
                  ELSE [before EXCEPT !.requests = requests]
    IN  loop[Len(locs)]

\* one run of the page for the text entered and the answers of the service
service_locator(text, city_answer, center_answers, showroom_answers) ==
    LET city == str_title(strip(text))
        connect_error ==
            IF city_answer.kind = "Exception"
            THEN <<"Could not connect to geocoding service. Please check your "
                     \o "internet connection. Error: " \o city_answer.text>>
            ELSE <<>>
        centers == add_location_marker(SERVICE_CENTERS, "Service Centers", "red",
                                       "wrench", city, center_answers)
        showrooms == add_location_marker(SHOWROOMS, "Showrooms", "blue", "car",
                                         city, showroom_answers)
    IN  IF city_answer.kind = "Location" THEN
            [page |-> "Service Locator", city |-> city,
             written |-> "Displaying locations in and around **" \o city \o "**.",
             errors |-> <<>>,
             map |-> [rendered |-> TRUE, location |-> point_of(city),
                      markers |-> centers.markers \o showrooms.markers],
             printed |-> centers.printed \o showrooms.printed,
             requests |-> <<GeocodeRequest(city, city_answer)>>
                             \o centers.requests \o showrooms.requests]
        ELSE
            [page |-> "Service Locator", city |-> city, written |-> "",
             errors |-> connect_error \o
                 (IF city # ""
                  THEN <<"Could not find the city: " \o city \o ". Please check "
                           \o "the spelling or try a nearby major city.">>
                  ELSE <<>>),
             map |-> NoMap, printed |-> <<>>,
             requests |-> <<GeocodeRequest(city, city_answer)>>]

\* texts entered in the city field
CityInputs == {"hyderabad", " MUMBAI ", "new delhi", " "}

\* the service resolves no empty query
CityAnswers(city) ==
    IF city = "" THEN GeocodeAnswers \ {Location} ELSE GeocodeAnswers

\* the answers to the requests for the addresses listed under city, none
\* being sent unless the city was resolved
AddressAnswers(location_list, city, city_answer) ==
    IF city_answer.kind = "Location"
    THEN [1..Len(Get(location_list, city, <<>>)) -> GeocodeAnswers]
    ELSE {<<>>}

ServiceLocator ==
    /\ \E text \in CityInputs :
        \E city \in {str_title(strip(text))} :
         \E city_answer \in CityAnswers(city) :
          \E center_answers \in AddressAnswers(SERVICE_CENTERS, city, city_answer),
             showroom_answers \in AddressAnswers(SHOWROOMS, city, city_answer) :
            locator_view' = service_locator(text, city_answer,
                                            center_answers, showroom_answers)
    /\ UNCHANGED <<vehicles, parts_cache, today, submissions, rules, wiki, ai>>

NextLocator == ServiceLocator

SpecLocator == Init /\ [][NextLocator]_vars

(* Inputs of the rule evaluators (SpecRules) *)

\* how far around each threshold of the rules the inputs reach
Slack == 1

RuleTypes == {"Car", "Bike", "Scooter", "Truck"}
RuleUsages == {"City", "Highway", "Mixed", "Commercial", "Offroad"}

ScheduleOf(type) ==
    IF type \in DOMAIN SERVICE_SCHEDULES THEN SERVICE_SCHEDULES[type] ELSE <<>>

Near(S) == {t + d : t \in S, d \in (0 - Slack)..Slack} \cap Nat

\* kilometre readings at which get_recommended_parts changes its answer
PartKmThresholds == {20000, 40000, 50000, 80000, 100000}

\* kilometres since the last service around the adjusted intervals
KmSinceInputs(type, usage) ==
    {0} \cup Near({adjusted_interval_km(si, usage) : si \in Range(ScheduleOf(type))})

\* days since the last service around the adjusted intervals
DaysSinceInputs(type, usage) ==
    {0} \cup Near({(adjusted_interval_months(si, usage) * 3044) \div 100
                      : si \in Range(ScheduleOf(type))})

InitialKmInputs == {0, 45000}

\* a rule input: a registered vehicle after Update Kilometers
VehicleRecord(type, usage, price, purchase_date, initial_km, current_km) ==
    [new_vehicle(type, "Maruti Suzuki", "Swift", 2000, purchase_date, price,
                 initial_km, usage) EXCEPT !.current_km = current_km]

\* the same record with a General Service recorded one day and one
\* kilometre after the purchase
WithRecordedService(vd) ==
    ("last_service_date_" \o "General Service") :> (vd.purchase_date + 1) @@
    ("last_service_km_" \o "General Service") :> (vd.initial_km + 1) @@ vd

\* the kilometre readings tried for a vehicle first registered at initial_km
CurrentKmInputs(type, usage, initial_km) ==
    {initial_km + k : k \in KmSinceInputs(type, usage)}
        \cup {k \in Near(PartKmThresholds) : k >= initial_km}

RuleInputsOf(type, usage) ==
    UNION { { VehicleRecord(type, usage, 750000, 0 - days, initial_km, current_km) :
                days \in DaysSinceInputs(type, usage),
                current_km \in CurrentKmInputs(type, usage, initial_km) }
            : initial_km \in InitialKmInputs }

RuleInputs ==
    LET plain == UNION {RuleInputsOf(tu[1], tu[2]) : tu \in RuleTypes \X RuleUsages}
    IN  plain \cup {WithRecordedService(vd) : vd \in {p \in plain : p.initial_km = 0}}

SampleCache == ("wikipedia" \o "_" \o "Brake pad") :> "A brake pad."

InitRules ==
    /\ vehicle_data \in RuleInputs
    /\ vehicles = <<vehicle_data>>
    /\ parts_cache = SampleCache
    /\ today = 0
    /\ locator_view = NoLocatorView
    /\ submissions = 1
    /\ services_due = NotCalled
    /\ recommended_parts = NotCalled
    /\ wiki_call = NotCalled
    /\ wiki_result = NotCalled
    /\ net_log = <<>>
    /\ ai_resource = Unloaded
    /\ details_memo = EmptyDict
    /\ format_memo = EmptyDict
    /\ current_part_info = Unset
    /\ formatted_part_info = Unset
    /\ ai_view = NoView

CalculateServiceDue ==
    /\ services_due' = calculate_service_due(vehicle_data, today)
    /\ UNCHANGED <<vehicles, parts_cache, today, locator_view, submissions, vehicle_data,
                   recommended_parts, wiki, ai>>

GetRecommendedParts ==
    /\ recommended_parts' = get_recommended_parts(vehicle_data)
    /\ UNCHANGED <<vehicles, parts_cache, today, locator_view, submissions, vehicle_data,
                   services_due, wiki, ai>>

NextRules == CalculateServiceDue \/ GetRecommendedParts

SpecRules == InitRules /\ [][NextRules]_vars

(* Claims about the rule evaluators, checked under SpecRules *)

ListedCount(name) ==
    Cardinality({i \in DOMAIN services_due : services_due[i].service = name})

\* days since the last service date, the purchase date when none is recorded
ElapsedDays(vd, name) ==
    IF ("last_service_date_" \o name) \in DOMAIN vd
    THEN today - vd["last_service_date_" \o name]
    ELSE today - vd.purchase_date

\* kilometres since the last service reading, initial_km when none is recorded
KmDriven(vd, name) ==
    IF ("last_service_km_" \o name) \in DOMAIN vd
    THEN vd.current_km - vd["last_service_km_" \o name]
    ELSE vd.current_km - vd.initial_km

\* C1: for a Car, Bike or Scooter, calculate_service_due lists a service of
\* the type's schedule exactly once when the days elapsed since the last
\* service (purchase date if none), as months of 30.44 days, reach the
\* adjusted month interval or the kilometres since the last reading
\* (initial_km if none) reach the adjusted kilometre interval, and does not
\* list it otherwise.
C1_ListedIffDue ==
    (services_due # NotCalled /\ vehicle_data.type \in {"Car", "Bike", "Scooter"}) =>
        \A si \in Range(SERVICE_SCHEDULES[vehicle_data.type]) :
            LET by_time == ElapsedDays(vehicle_data, si.service) * 100
                             >= adjusted_interval_months(si, vehicle_data.usage) * 3044
                by_km == KmDriven(vehicle_data, si.service)
                             >= adjusted_interval_km(si, vehicle_data.usage)
            IN  ListedCount(si.service) = IF by_time \/ by_km THEN 1 ELSE 0

\* C1 witness: a Car whose General Service is listed for its kilometre
\* reading alone while another service of the schedule is not listed
C1_Witness ==
    /\ services_due # NotCalled
    /\ vehicle_data.type = "Car"
    /\ Len(services_due) \in 1..4
    /\ \E i \in DOMAIN services_due :
          /\ services_due[i].service = "General Service"
          /\ services_due[i].due_reason = "Kilometer Reading"

\* C2: the adjusted month (kilometre) interval is the base interval divided
\* by the usage's service_frequency (parts_wear) multiplier, truncated; City
\* and Commercial never lengthen an interval, Highway never shortens one,
\* Mixed keeps it, and a usage outside the table is treated as Mixed.
C2_UsageScalesIntervals ==
    LET usage == vehicle_data.usage
        known == usage \in {"City", "Highway", "Mixed", "Commercial"}
        mult  == USAGE_MULTIPLIERS[IF known THEN usage ELSE "Mixed"]
    IN  /\ \A si \in Range(ScheduleOf(vehicle_data.type)) :
            LET am == adjusted_interval_months(si, usage)
                ak == adjusted_interval_km(si, usage)
            IN  /\ am * mult.service_frequency <= si.interval_months * 10
                /\ si.interval_months * 10 < (am + 1) * mult.service_frequency
                /\ ak * mult.parts_wear <= si.interval_km * 10
                /\ si.interval_km * 10 < (ak + 1) * mult.parts_wear
                /\ usage \in {"City", "Commercial"} =>
                      am <= si.interval_months /\ ak <= si.interval_km
                /\ usage = "Highway" =>
                      am >= si.interval_months /\ ak >= si.interval_km
                /\ (usage = "Mixed" \/ ~known) =>
                      am = si.interval_months /\ ak = si.interval_km
        /\ (services_due # NotCalled /\ ~known) =>
              services_due =
                  calculate_service_due([vehicle_data EXCEPT !.usage = "Mixed"], today)

\* C2 witness: a City vehicle with a service listed although neither base
\* interval has been reached, and an unknown usage evaluated
C2_Witness ==
    /\ services_due # NotCalled
    /\ vehicle_data.usage = "City"
    /\ vehicle_data.type = "Car"
    /\ \E si \in Range(SERVICE_SCHEDULES["Car"]) :
          /\ ListedCount(si.service) = 1
          /\ ElapsedDays(vehicle_data, si.service) * 100 < si.interval_months * 3044
          /\ KmDriven(vehicle_data, si.service) < si.interval_km

\* the parts the stated rules trigger for a record
RuleParts(vd) ==
    LET km == vd.current_km
    IN  (IF 50000 < km /\ km <= 80000 THEN {"Brake Pads", "Tires"} ELSE {})
        \cup (IF km > 80000 THEN {"Spark Plugs", "Suspension Components"} ELSE {})
        \cup (IF vd.usage = "City" THEN {"Brake Pads", "Air Filter"} ELSE {})
        \cup (IF vd.usage = "Commercial"
              THEN {"Engine Oil", "Brake Pads", "Suspension Components", "Tires"}
              ELSE {})
        \cup (IF vd.type = "Car" /\ km > 80000 THEN {"Timing Belt"} ELSE {})
        \cup (IF vd.type = "Car" /\ km > 100000 THEN {"Water Pump"} ELSE {})
        \cup (IF vd.type = "Car" /\ vd.usage = "City" THEN {"Clutch Assembly"} ELSE {})
        \cup (IF vd.type = "Bike" /\ vd.usage = "City" THEN {"Clutch Plates"} ELSE {})
        \cup (IF vd.type = "Scooter" /\ 20000 < km /\ km <= 40000
              THEN {"CVT Belt"} ELSE {})

\* dictionary order, letter case ignored
AlphabeticallyBefore(a, b) ==
    \E la \in {lower(a)}, lb \in {lower(b)} : StrLess(la, lb)

\* C5: the recommended parts are exactly the union of the triggered rules,
\* without duplicates, in ascending alphabetical order; Mixed or Highway
\* usage with at most 50000 km (a Scooter outside 20001..40000) gets none.
C5_RecommendedParts ==
    recommended_parts # NotCalled =>
        /\ Range(recommended_parts) = RuleParts(vehicle_data)
        /\ Len(recommended_parts) = Cardinality(RuleParts(vehicle_data))
        /\ \A i, j \in DOMAIN recommended_parts :
              i < j => AlphabeticallyBefore(recommended_parts[i], recommended_parts[j])
        /\ ( /\ vehicle_data.usage \in {"Mixed", "Highway"}
             /\ vehicle_data.current_km <= 50000
             /\ vehicle_data.type = "Scooter" =>
                    vehicle_data.current_km \notin 20001..40000 )
           => recommended_parts = <<>>

\* C5 witness: a City car beyond 100000 km, with every car rule triggered
C5_Witness ==
    /\ recommended_parts # NotCalled
    /\ vehicle_data.type = "Car" /\ vehicle_data.usage = "City"
    /\ vehicle_data.current_km > 100000
    /\ Len(recommended_parts) = 7

\* records that agree with vd on type, usage and current_km
SameKmUsageType(vd) ==
    {[vd EXCEPT !.price = price, !.initial_km = initial_km,
                !.purchase_date = purchase_date, !.brand = brand] :
        price \in {0, vd.price}, initial_km \in {0, vd.initial_km},
        purchase_date \in {0, vd.purchase_date}, brand \in {"Tata", vd.brand}}

\* records that agree with vd on every field the due calculation names
SameServiceFields(vd) ==
    {[vd EXCEPT !.price = price, !.brand = brand, !.year = year] :
        price \in {0, vd.price}, brand \in {"Tata", vd.brand},
        year \in {2024, vd.year}}

\* C4: get_recommended_parts gives the same list for records that agree on
\* current_km, usage and type; calculate_service_due gives the same list
\* for the same record on the same date, whatever the other fields and
\* however often it is called; neither changes the vehicle list or the
\* parts cache.
C4_Deterministic ==
    /\ [](recommended_parts # NotCalled =>
            \A other \in SameKmUsageType(vehicle_data) :
                get_recommended_parts(other) = recommended_parts)
    /\ [](services_due # NotCalled =>
            \A other \in SameServiceFields(vehicle_data) :
                calculate_service_due(other, today) = services_due)
    /\ [][/\ vehicles' = vehicles
          /\ parts_cache' = parts_cache
          /\ services_due # NotCalled => services_due' = services_due
          /\ recommended_parts # NotCalled => recommended_parts' = recommended_parts]_vars

\* C4 witness: both evaluators have run on a registered vehicle for which
\* they return non-empty lists, with the parts cache holding an entry
C4_Witness ==
    /\ services_due # NotCalled /\ services_due # <<>>
    /\ recommended_parts # NotCalled /\ recommended_parts # <<>>
    /\ vehicles = <<vehicle_data>>
    /\ DOMAIN parts_cache # {}

\* the entry of the type's schedule with the given service name
ScheduleEntry(type, name) ==
    CHOOSE si \in Range(SERVICE_SCHEDULES[type]) : si.service = name

\* the adjusted month interval of a service as whole days: months * 30.44,
\* truncated
IntervalDays(vd, name) ==
    (adjusted_interval_months(ScheduleEntry(vd.type, name), vd.usage) * 3044) \div 100

\* the days elapsed since the last service, as months of 30.44 days, reach
\* the adjusted month interval
DueByTime(vd, name) ==
    ElapsedDays(vd, name) * 100
        >= adjusted_interval_months(ScheduleEntry(vd.type, name), vd.usage) * 3044

\* the kilometres since the last reading reach the adjusted kilometre interval
DueByKm(vd, name) ==
    KmDriven(vd, name) >= adjusted_interval_km(ScheduleEntry(vd.type, name), vd.usage)

\* C11: days_overdue of every returned entry is a non-negative integer; for
\* a service due by time it is the days elapsed since the last service date
\* minus the adjusted month interval as whole days (months * 30.44,
\* truncated); for a service due only by kilometres it is 0, and the
\* "might be overdue" note (days_overdue > 7) is not shown for it.
C11_DaysOverdue ==
    services_due # NotCalled =>
        \A i \in DOMAIN services_due :
            LET e == services_due[i]
            IN  /\ e.days_overdue \in Nat
                /\ DueByTime(vehicle_data, e.service) =>
                      e.days_overdue = ElapsedDays(vehicle_data, e.service)
                                          - IntervalDays(vehicle_data, e.service)
                /\ ~DueByTime(vehicle_data, e.service) =>
                      e.days_overdue = 0 /\ ~overdue_note(e)

\* C11 witness: one result lists a service due only by kilometres, without
\* the note, and a service with a recorded last service date that is more
\* than a week overdue, with the note
C11_Witness ==
    /\ services_due # NotCalled
    /\ \E i, j \in DOMAIN services_due :
          /\ ~DueByTime(vehicle_data, services_due[i].service)
          /\ DueByKm(vehicle_data, services_due[i].service)
          /\ services_due[i].days_overdue = 0
          /\ ("last_service_date_" \o services_due[j].service) \in DOMAIN vehicle_data
          /\ DueByTime(vehicle_data, services_due[j].service)
          /\ services_due[j].days_overdue > 7
          /\ overdue_note(services_due[j])

\* C12: the due_reason of every listed service names exactly the conditions
\* that hold: "Time Interval" for the time condition alone, "Kilometer
\* Reading" for the kilometre condition alone, "Time Interval & Kilometer
\* Reading" for both; it is never empty.
C12_DueReason ==
    services_due # NotCalled =>
        \A i \in DOMAIN services_due :
            LET e == services_due[i]
                by_time == DueByTime(vehicle_data, e.service)
                by_km == DueByKm(vehicle_data, e.service)
            IN  /\ e.due_reason # ""
                /\ e.due_reason = "Time Interval" <=> (by_time /\ ~by_km)
                /\ e.due_reason = "Kilometer Reading" <=> (~by_time /\ by_km)
                /\ e.due_reason = "Time Interval & Kilometer Reading"
                      <=> (by_time /\ by_km)

\* C12 witness: one result lists a service due for both reasons and a
\* service due for its time interval alone
C12_Witness ==
    /\ services_due # NotCalled
    /\ \E i, j \in DOMAIN services_due :
          /\ services_due[i].due_reason = "Time Interval & Kilometer Reading"
          /\ DueByTime(vehicle_data, services_due[i].service)
          /\ DueByKm(vehicle_data, services_due[i].service)
          /\ services_due[j].due_reason = "Time Interval"
          /\ ~DueByKm(vehicle_data, services_due[j].service)

\* the position of a service in the schedule table of a type
SchedulePosition(type, name) ==
    CHOOSE k \in DOMAIN SERVICE_SCHEDULES[type] :
        SERVICE_SCHEDULES[type][k].service = name

\* C13: every returned entry carries the cost_range of its service in the
\* schedule of the vehicle's own type and the parts list of that service for
\* that type; the parts list is non-empty, every service of SERVICE_SCHEDULES
\* having an entry in SERVICE_PARTS under the same type; the entries appear
\* in the order of the schedule table.
C13_CostPartsOrder ==
    /\ \A type \in DOMAIN SERVICE_SCHEDULES :
          \A si \in Range(SERVICE_SCHEDULES[type]) :
              /\ type \in DOMAIN SERVICE_PARTS
              /\ si.service \in DOMAIN SERVICE_PARTS[type]
              /\ SERVICE_PARTS[type][si.service] # <<>>
    /\ services_due # NotCalled =>
          /\ \A i \in DOMAIN services_due :
                LET e == services_due[i]
                    type == vehicle_data.type
                IN  /\ e.cost_range = ScheduleEntry(type, e.service).cost_range
                    /\ e.parts = SERVICE_PARTS[type][e.service]
                    /\ e.parts # <<>>
          /\ \A i, j \in DOMAIN services_due :
                i < j => SchedulePosition(vehicle_data.type, services_due[i].service)
                           < SchedulePosition(vehicle_data.type, services_due[j].service)

\* C13 witness: a Bike with its Chain Service listed after another service,
\* with the Bike's cost range and parts for it
C13_Witness ==
    /\ services_due # NotCalled
    /\ vehicle_data.type = "Bike"
    /\ \E i \in DOMAIN services_due :
          /\ i > 1
          /\ services_due[i].service = "Chain Service"
          /\ services_due[i].cost_range = <<1500, 3000>>
          /\ services_due[i].parts = <<"Chain", "Front Sprocket", "Rear Sprocket">>

(* Claims about the session, checked under Spec *)

\* the fields of a record other than current_km are the same
SameButCurrentKm(old, new) ==
    /\ DOMAIN new = DOMAIN old
    /\ \A f \in DOMAIN old \ {"current_km"} : new[f] = old[f]

\* C3: every Add Vehicle submission appends exactly one record, with
\* initial_km equal to the entered current_km, at the end of the list; no
\* step removes, reorders or replaces a record; the list is as long as the
\* number of submissions.
C3_AppendOnly ==
    /\ [](Len(vehicles) = submissions)
    /\ [][/\ Len(vehicles') \in {Len(vehicles), Len(vehicles) + 1}
          /\ \A i \in DOMAIN vehicles : SameButCurrentKm(vehicles[i], vehicles'[i])
          /\ submissions' # submissions =>
                /\ submissions' = submissions + 1
                /\ Len(vehicles') = Len(vehicles) + 1
                /\ SubSeq(vehicles', 1, Len(vehicles)) = vehicles
                /\ vehicles'[Len(vehicles')].initial_km
                      = vehicles'[Len(vehicles')].current_km
          /\ submissions' = submissions => Len(vehicles') = Len(vehicles)]_vars

\* C3 witness: two submissions, the second with a non-zero reading, and an
\* update of the first vehicle in between or after
C3_Witness ==
    /\ submissions = 2 /\ Len(vehicles) = 2
    /\ vehicles[2].initial_km > 0
    /\ vehicles[1].current_km > vehicles[1].initial_km
    /\ vehicles[1].type # vehicles[2].type

\* C10: a step that changes a reading changes only the current_km of one
\* vehicle and never lowers it; every vehicle has
\* current_km >= initial_km >= 0.
C10_UpdateKilometersFrame ==
    /\ [](\A i \in DOMAIN vehicles :
            /\ vehicles[i].current_km >= vehicles[i].initial_km
            /\ vehicles[i].initial_km >= 0)
    /\ [][\A i \in DOMAIN vehicles :
            /\ vehicles'[i].current_km >= vehicles[i].current_km
            /\ vehicles'[i].current_km # vehicles[i].current_km =>
                  /\ [vehicles' EXCEPT ![i].current_km = vehicles[i].current_km] = vehicles
                  /\ vehicle_data' = vehicles'[i]]_vars

\* C10 witness: the second of two vehicles has been driven since it was
\* registered with a non-zero reading; the first is as registered
C10_Witness ==
    /\ Len(vehicles) = 2
    /\ vehicles[1].current_km = vehicles[1].initial_km
    /\ vehicles[2].initial_km = 0
    /\ vehicles[2].current_km > 0
    /\ vehicle_data = vehicles[2]

(* Claims about the wiki lookups, checked under SpecWiki *)

Searches(log) == SelectSeq(log, LAMBDA e : e.op = "search")
Summaries(log) == SelectSeq(log, LAMBDA e : e.op = "summary")

\* C6: an entry of the parts cache is never removed or overwritten, and a
\* call of get_wikimedia_summary whose project_title key is in the cache
\* returns the stored summary without a request.
C6_CacheIsMemo ==
    [][/\ \A key \in DOMAIN parts_cache :
            key \in DOMAIN parts_cache' /\ parts_cache'[key] = parts_cache[key]
       /\ \A i \in DOMAIN net_log' :
            LET e == net_log'[i]
            IN  (e.op = "summary" /\ (e.project \o "_" \o e.title) \in DOMAIN parts_cache)
                    => e.ret = parts_cache[e.project \o "_" \o e.title] /\ ~e.request]_vars

\* C6 witness: a summary served from the cache while the cache holds
\* entries of both projects
C6_Witness ==
    /\ \E i \in DOMAIN net_log :
          /\ net_log[i].op = "summary"
          /\ ~net_log[i].request
          /\ ("wikipedia" \o "_" \o net_log[i].title) \in DOMAIN parts_cache
          /\ net_log[i].ret = parts_cache["wikipedia" \o "_" \o net_log[i].title]
    /\ \E t \in Titles : ("wikibooks" \o "_" \o t) \in DOMAIN parts_cache
    /\ Cardinality(DOMAIN parts_cache) >= 3

\* the Wikibooks (Wikipedia) part of the log of a get_maintenance_tips call
LogOf(project) == SelectSeq(net_log, LAMBDA e : e.project = project)

\* a project's attempt found a title and got the summary text
Attempted(project, text) ==
    LET log == LogOf(project)
    IN  /\ Len(log) = 2
        /\ log[1].op = "search" /\ log[1].title # None
        /\ log[2].op = "summary" /\ log[2].title = log[1].title
        /\ log[2].ret = text

\* the texts a get_maintenance_tips call can have got from a project
AttemptTexts(project) == {e.ret : e \in Range(Summaries(LogOf(project)))}

\* get_maintenance_tips as stated, for a given reading of "usable summary"
TipsPreferWikibooks(Usable(_)) ==
    wiki_call # NotCalled /\ wiki_call[1] = "get_maintenance_tips" =>
        LET books == {t \in AttemptTexts("wikibooks") :
                          Attempted("wikibooks", t) /\ Usable(t)}
            pedia == {t \in AttemptTexts("wikipedia") :
                          Attempted("wikipedia", t) /\ Usable(t)}
        IN  /\ net_log # <<>> /\ net_log[1].op = "search"
            /\ net_log[1].project = "wikibooks"
            /\ \A t \in books : wiki_result = <<t, "Wikibooks">>
            /\ net_log = LogOf("wikibooks") \o LogOf("wikipedia")
            /\ LogOf("wikipedia") # <<>> => books = {}
            /\ books = {} =>
                  /\ \A t \in pedia : wiki_result = <<t, "Wikipedia">>
                  /\ pedia = {} =>
                        wiki_result = <<"General maintenance tips not available.", "N/A">>

\* the summary does not contain "not available"
LacksNotAvailable(text) == ~Contains("not available", text)

\* the summary is not empty and does not contain "not available" in any
\* letter case
NonEmptyLacksNotAvailable(text) ==
    text # "" /\ \A low \in {lower(text)} : ~Contains("not available", low)

\* C7 as stated: Wikibooks first; its summary is returned, labelled
\* "Wikibooks", whenever its search finds a title and the summary does not
\* contain "not available"; Wikipedia is queried only otherwise, under the
\* same condition; when both fail the fixed pair is returned.
C7_AsStated == TipsPreferWikibooks(LacksNotAvailable)

\* C7 amended: the same with a summary counting only when it is not empty
\* and does not contain "not available" in any letter case.
C7_TipsPreferWikibooks == TipsPreferWikibooks(NonEmptyLacksNotAvailable)

\* C7 witness: Wikibooks found a page whose summary is empty, and the
\* Wikipedia summary is returned
C7_Witness ==
    /\ wiki_call # NotCalled /\ wiki_call[1] = "get_maintenance_tips"
    /\ Attempted("wikibooks", "")
    /\ Len(LogOf("wikipedia")) = 2
    /\ wiki_result[2] = "Wikipedia"

\* C8: get_part_information searches Wikipedia for "Automotive <part>" and,
\* only when that finds no title, for the bare part name; it returns the
\* summary of the first title found, and the fixed message when neither
\* search finds one; at most two searches and one summary call are made.
C8_PartInformation ==
    wiki_call # NotCalled /\ wiki_call[1] = "get_part_information" =>
        LET part == wiki_call[2]
            searches == Searches(net_log)
            summaries == Summaries(net_log)
            found == {i \in DOMAIN searches : searches[i].title # None}
        IN  /\ Len(searches) \in 1..2
            /\ Len(summaries) <= 1
            /\ net_log = searches \o summaries
            /\ \A i \in DOMAIN net_log : net_log[i].project = "wikipedia"
            /\ searches[1].query = "Automotive " \o part
            /\ Len(searches) = 2 <=> searches[1].title = None
            /\ Len(searches) = 2 => searches[2].query = part
            /\ found = {} =>
                  /\ summaries = <<>>
                  /\ wiki_result = "Information not available for this part."
            /\ found # {} =>
                  /\ Len(summaries) = 1
                  /\ found = {Len(searches)}
                  /\ summaries[1].title = searches[Len(searches)].title
                  /\ wiki_result = summaries[1].ret

\* C8 witness: the first search found nothing, the second found a title and
\* its summary was fetched over the network
C8_Witness ==
    /\ wiki_call # NotCalled /\ wiki_call[1] = "get_part_information"
    /\ Len(net_log) = 3
    /\ net_log[1].title = None
    /\ net_log[3].op = "summary" /\ net_log[3].request
    /\ wiki_result = "Pads.\nOk"

(* Claims about get_wikimedia_summary, checked under SpecSummary *)

StartsWith(s, prefix) ==
    Len(s) >= Len(prefix) /\ SubSeq(s, 1, Len(prefix)) = prefix

\* the messages get_wikimedia_summary returns in place of a summary
IsFallbackMessage(text) ==
    \/ text = "No relevant article found."
    \/ text = "Information not available."
    \/ StartsWith(text, "Network error retrieving information: ")

\* the answer carries a page with a non-empty extract
HasExtract(response) ==
    /\ response.kind = "ok"
    /\ response.page_id # "-1"
    /\ "extract" \in DOMAIN response.page
    /\ response.page.extract # ""

\* C14: get_wikimedia_summary writes to the parts cache only on a fetch that
\* succeeds with a non-empty extract.  A call with an empty title returns
\* "No relevant article found." without a request; a missing page, an empty
\* extract or a network error returns "Information not available." or
\* "Network error retrieving information: ..." and leaves the cache
\* unchanged; no such message is ever held in, or served from, the cache.
C14_CacheWrittenOnExtractOnly ==
    /\ [][LET title == wiki_call'[2]
              project == wiki_call'[3]
              response == wiki_call'[4]
              key == project \o "_" \o title
              sent == net_log'[1].request
          IN  /\ title \in {None, ""} =>
                    /\ wiki_result' = "No relevant article found."
                    /\ ~sent
                    /\ response = NoRequest
                    /\ parts_cache' = parts_cache
              /\ (sent /\ response.kind = "RequestException") =>
                    /\ wiki_result' = "Network error retrieving information: "
                                          \o response.text
                    /\ parts_cache' = parts_cache
              /\ (sent /\ response.kind = "ok" /\ ~HasExtract(response)) =>
                    /\ wiki_result' = "Information not available."
                    /\ parts_cache' = parts_cache
              /\ parts_cache' # parts_cache =>
                    /\ sent
                    /\ HasExtract(response)
                    /\ key \notin DOMAIN parts_cache
                    /\ DOMAIN parts_cache' = DOMAIN parts_cache \cup {key}
                    /\ parts_cache'[key] = wiki_result'
                    /\ \A k \in DOMAIN parts_cache : parts_cache'[k] = parts_cache[k]
              /\ (~sent /\ title \notin {None, ""}) =>
                    ~IsFallbackMessage(wiki_result')
         ]_vars
    /\ [](\A key \in DOMAIN parts_cache : ~IsFallbackMessage(parts_cache[key]))

\* C14 witness: a call answered with a missing page returned the fallback
\* message and left a cache that already holds a summary without an entry
\* for the title asked
C14_Witness ==
    /\ wiki_call # NotCalled
    /\ wiki_call[4] = PageFound("-1", [title |-> "x"])
    /\ wiki_result = "Information not available."
    /\ net_log[1].request
    /\ (wiki_call[3] \o "_" \o wiki_call[2]) \notin DOMAIN parts_cache
    /\ parts_cache # EmptyDict

(* Claims about AI text generation, checked under SpecAI *)

\* an AI call found the model missing, or ran it and got no usable output
Degraded(call) ==
    call.pipe = None \/ (~call.hit /\ ~usable_outputs(call.outputs))

\* C9: when the pipeline is None or returns no usable output,
\* format_text_with_ai returns its input and generate_ai_details one of its
\* two fixed messages; the Parts Encyclopedia and Maintenance Tips pages
\* then show the unformatted wiki text, and the Maintenance Schedule page
\* shows an error message, not AI details.
C9_AIDegrades ==
    /\ \A outputs \in PipeOutputs :
          /\ format_text_with_ai(None, "Pads.\nOk", "", EmptyDict, outputs).ret
                = "Pads.\nOk"
          /\ generate_ai_details(None, "Oil Change", "Car", "Swift", EmptyDict, outputs).ret
                = "AI model is not available."
    /\ ai_view.page # NotCalled =>
          LET degraded == ai_resource = None
                            \/ \E i \in DOMAIN ai_view.calls : Degraded(ai_view.calls[i])
          IN  /\ \A i \in DOMAIN ai_view.calls :
                    LET call == ai_view.calls[i]
                    IN  Degraded(call) =>
                          IF call.fn = "format_text_with_ai"
                          THEN call.ret = call.text
                          ELSE call.ret = (IF call.pipe = None
                                           THEN "AI model is not available."
                                           ELSE "Could not generate AI response. Please try again.")
              /\ (degraded /\ ai_view.page = "Parts Encyclopedia") =>
                    ai_view.shown = ai_view.wiki_text
              /\ (degraded /\ ai_view.page = "Maintenance Tips" /\ ai_view.error = "") =>
                    ai_view.shown = ai_view.wiki_text
              /\ (degraded /\ ai_view.page = "Maintenance Schedule") =>
                    \/ /\ ai_view.error = "AI Model is not available. Could not fetch details."
                       /\ ai_view.shown = ""
                    \/ /\ ai_view.error = ""
                       /\ ai_view.shown = "Could not generate AI response. Please try again."

\* C9 witness: the pipeline is loaded, the Parts Encyclopedia page ran it on
\* a wiki summary and got no usable output, and shows the summary
C9_Witness ==
    /\ ai_view.page # NotCalled
    /\ ai_view.page = "Parts Encyclopedia"
    /\ ai_resource = AIPipe
    /\ Len(ai_view.calls) = 1
    /\ ~ai_view.calls[1].hit
    /\ ~usable_outputs(ai_view.calls[1].outputs)
    /\ ai_view.wiki_text = "Pads.\nOk"
    /\ ai_view.shown = "Pads.\nOk"
    /\ details_memo # EmptyDict

(* Claims about the Service Locator page, checked under SpecLocator *)

\* the service centers, then the showrooms, listed under a city
Listed(city) ==
    (IF city \in DOMAIN SERVICE_CENTERS THEN SERVICE_CENTERS[city] ELSE <<>>)
        \o (IF city \in DOMAIN SHOWROOMS THEN SHOWROOMS[city] ELSE <<>>)

\* C15: the Service Locator renders a map only when the entered city was
\* geocoded; a geocoding exception, or no location for a city that was
\* entered, gives an error message and no map.  With a map, every address
\* listed under the entered city is looked up, centers first, and a marker
\* is placed for exactly those that were found: an address that is not
\* found or whose lookup raises is skipped, the rest are still placed and
\* the map is shown; a city absent from the tables gets no marker.
C15_ServiceLocator ==
    locator_view.page # NotCalled =>
        LET v == locator_view
            listed == Listed(v.city)
            found == {k \in DOMAIN listed : v.requests[k + 1].kind = "Location"}
        IN  /\ v.requests[1].query = v.city
            /\ v.map.rendered => v.requests[1].kind = "Location"
            /\ v.requests[1].kind = "Exception" =>
                  v.errors # <<>> /\ ~v.map.rendered
            /\ (v.requests[1].kind = "None" /\ v.city # "") =>
                  v.errors # <<>> /\ ~v.map.rendered
            /\ ~v.map.rendered => v.map.markers = <<>> /\ Len(v.requests) = 1
            /\ v.map.rendered =>
                  /\ Len(v.requests) = 1 + Len(listed)
                  /\ \A k \in DOMAIN listed : v.requests[k + 1].query = listed[k].address
                  /\ Len(v.map.markers) = Cardinality(found)
                  /\ \A k \in found :
                        \E i \in DOMAIN v.map.markers :
                            /\ v.map.markers[i].tooltip = listed[k].name
                            /\ v.map.markers[i].location = [place |-> listed[k].address]
                  /\ v.city \notin (DOMAIN SERVICE_CENTERS \cup DOMAIN SHOWROOMS) =>
                        v.map.markers = <<>>

\* C15 witness: a map for Hyderabad where the lookup of one address raised,
\* another address was not found, and a later address got its marker
C15_Witness ==
    /\ locator_view.page # NotCalled
    /\ locator_view.city = "Hyderabad"
    /\ locator_view.map.rendered
    /\ \E i, j, k \in 2..Len(locator_view.requests) :
          /\ i < k /\ j < k
          /\ locator_view.requests[i].kind = "Exception"
          /\ locator_view.requests[j].kind = "None"
          /\ locator_view.requests[k].kind = "Location"
          /\ \E m \in DOMAIN locator_view.map.markers :
                locator_view.map.markers[m].location
                    = [place |-> locator_view.requests[k].query]
    /\ Len(locator_view.map.markers) < 6

====
